---- MODULE Spec2Model ----
(***************************************************************************)
(* Model of the HQ telephone crawler (src/hq_tel_scraper.py).              *)
(*                                                                         *)
(* Python strings are modelled as sequences of one-character strings       *)
(* (phone numbers, keywords, page text) and URLs as sequences of tokens    *)
(* (a word such as "https" or "a.jp", or one of ":", "/", " "), so that    *)
(* strip, lower, re.sub, urlparse and geturl are computed, not assumed.    *)
(***************************************************************************)
EXTENDS Integers, Sequences, FiniteSets, TLC

(***************************************************************************)
(* Bounds of the model.                                                    *)
(***************************************************************************)
\* most pages one run may fetch: rows of the CSV times --max-pages
MaxFetches == 3
\* most anchors on one page
MaxLinks == 2
\* most rows of the input CSV
MaxRows == 2
\* the most register calls made on one registry
MaxCalls == 3
\* the most digits of a domestic number passed to normalize_phone_digits
MaxDigits == 11
\* the most pages --max-pages allows on the sites with a known link graph
MaxSitePages == 6

(***************************************************************************)
(* Program constants.                                                      *)
(***************************************************************************)
CONTEXT_WINDOW == 80
MAX_PARENT_DEPTH == 3

(***************************************************************************)
(* Generic string helpers (str.strip, str.lower, `in`, startswith).        *)
(***************************************************************************)
Range(s) == {s[i] : i \in DOMAIN s}

WS == {" "}

\* str.strip(): from the first to the last character that is not whitespace
Strip(s) ==
    LET kept == {i \in DOMAIN s : s[i] \notin WS}
        first == CHOOSE i \in kept : \A k \in kept : i <= k
        last == CHOOSE i \in kept : \A k \in kept : i >= k
    IN  IF kept = {} THEN <<>> ELSE SubSeq(s, first, last)

\* str.lower() on one character / one token
LowerChar(c) ==
    CASE c = "H" -> "h"
      [] c = "Q" -> "q"
      [] c = "T" -> "t"
      [] c = "HTTPS" -> "https"
      [] c = "HTTP" -> "http"
      [] OTHER -> c

\* str.lower()
Lower(s) == [i \in DOMAIN s |-> LowerChar(s[i])]

\* str.startswith(prefix)
StartsWith(s, prefix) ==
    Len(s) >= Len(prefix) /\ SubSeq(s, 1, Len(prefix)) = prefix

\* `sub in s` for strings: sub occurs as a contiguous run of s
Contains(s, sub) ==
    \E i \in 0..(Len(s) - Len(sub)) : SubSeq(s, i + 1, i + Len(sub)) = sub

\* str.find(c) + 1: index of the first occurrence of c, 0 when absent
FirstIndex(s, c) ==
    IF \E i \in DOMAIN s : s[i] = c
    THEN CHOOSE i \in DOMAIN s : s[i] = c /\ \A k \in 1..(i - 1) : s[k] # c
    ELSE 0

(***************************************************************************)
(* URLs: urllib.parse.urlparse / geturl on token sequences.                *)
(***************************************************************************)
IsWord(t) == t \notin {":", "/", " "}

UsesNetloc == {<<"http">>, <<"https">>, <<"ftp">>}

\* urlparse(url): scheme up to the first ":" when only scheme characters
\* precede it, netloc between a leading "//" and the next "/", path the rest
UrlParse(url) ==
    LET i == FirstIndex(url, ":")
        hasScheme == i > 1 /\ \A k \in 1..(i - 1) : IsWord(url[k])
        scheme == IF hasScheme THEN Lower(SubSeq(url, 1, i - 1)) ELSE <<>>
        rest == IF hasScheme THEN SubSeq(url, i + 1, Len(url)) ELSE url
        hasNet == StartsWith(rest, <<"/", "/">>)
        after == IF hasNet THEN SubSeq(rest, 3, Len(rest)) ELSE rest
        j == FirstIndex(after, "/")
    IN  [scheme |-> scheme,
         netloc |-> IF ~hasNet THEN <<>>
                    ELSE IF j = 0 THEN after ELSE SubSeq(after, 1, j - 1),
         path |-> IF ~hasNet THEN rest
                  ELSE IF j = 0 THEN <<>> ELSE SubSeq(after, j, Len(after))]

\* ParseResult.geturl()
GetUrl(p) ==
    LET withNet ==
            IF p.netloc # <<>>
               \/ (p.scheme \in UsesNetloc /\ ~StartsWith(p.path, <<"/", "/">>))
            THEN <<"/", "/">> \o p.netloc
                 \o (IF p.path # <<>> /\ Head(p.path) # "/"
                     THEN <<"/">> \o p.path ELSE p.path)
            ELSE p.path
    IN  IF p.scheme # <<>> THEN p.scheme \o <<":">> \o withNet ELSE withNet

\* the value normalize_url raises ValueError with, as a result
InvalidURL == <<"ValueError">>

\* normalize_url(raw_url)
normalize_url(raw_url) ==
    LET cleaned0 == Strip(raw_url)
        cleaned == IF ~Contains(cleaned0, <<":", "/", "/">>)
                   THEN <<"https", ":", "/", "/">> \o cleaned0
                   ELSE cleaned0
        parsed == UrlParse(cleaned)
        scheme == IF parsed.scheme # <<>> THEN parsed.scheme ELSE <<"https">>
    IN  IF parsed.netloc = <<>> THEN InvalidURL
        ELSE GetUrl([parsed EXCEPT !.scheme = scheme])

\* a test every URL passes
AnyDomain(url, domain) == TRUE

\* a network location without its port
HostOf(netloc) ==
    IF FirstIndex(netloc, ":") = 0 THEN netloc
    ELSE SubSeq(netloc, 1, FirstIndex(netloc, ":") - 1)

\* a test that compares hosts and leaves the ports aside
SameHost(url, domain) == HostOf(UrlParse(url).netloc) = HostOf(domain)

\* same_domain(url, domain)
same_domain(url, domain) == UrlParse(url).netloc = domain

(***************************************************************************)
(* Keyword bank.                                                           *)
(***************************************************************************)
\* the value load_keyword_bank raises ValueError with, as a result
InvalidConfig == [error |-> "ValueError"]

\* the set comprehension of load_keyword_bank: strip, lower, drop empties
CleanTerms(terms) ==
    {Lower(Strip(terms[i])) : i \in {k \in DOMAIN terms : Strip(terms[k]) # <<>>}}

\* a loader that accepts a file without primary terms
LoadUnchecked(data) ==
    [primary_terms |-> CleanTerms(data.primary_terms),
     scan_terms |-> CleanTerms(data.primary_terms) \cup CleanTerms(data.support_terms)]

\* load_keyword_bank(path), data being the parsed JSON object
load_keyword_bank(data) ==
    LET primary_terms == CleanTerms(data.primary_terms)
        support_terms == CleanTerms(data.support_terms)
    IN  IF primary_terms = {} THEN InvalidConfig
        ELSE [primary_terms |-> primary_terms,
              scan_terms |-> primary_terms \cup support_terms]

\* contains_keyword(text, terms)
contains_keyword(text, terms) ==
    LET lowered == Lower(text)
    IN  \E term \in terms : Contains(lowered, term)

(***************************************************************************)
(* Phone numbers.                                                          *)
(***************************************************************************)
Digit == {"0", "1", "2", "3", "4", "5", "6", "7", "8", "9"}

IsDigit(c) == c \in Digit

\* Python's None
None == <<"None">>

\* a normalisation that does not ask for the trunk prefix
NormalizeAnyPrefix(tel) ==
    LET digits0 == SelectSeq(tel, IsDigit)
        digits == IF StartsWith(digits0, <<"8", "1">>) /\ Len(digits0) > 10
                  THEN <<"0">> \o SubSeq(digits0, 3, Len(digits0))
                  ELSE digits0
    IN  IF Len(digits) < 10 THEN None
        ELSE <<digits, Strip(tel)>>

\* a normalisation that takes numbers of ten digits and no others
NormalizeTenOnly(tel) ==
    LET digits0 == SelectSeq(tel, IsDigit)
        digits == IF StartsWith(digits0, <<"8", "1">>) /\ Len(digits0) > 10
                  THEN <<"0">> \o SubSeq(digits0, 3, Len(digits0))
                  ELSE digits0
    IN  IF Len(digits) # 10 THEN None
        ELSE IF ~StartsWith(digits, <<"0">>) THEN None
        ELSE <<digits, Strip(tel)>>

\* a normalisation that leaves the country code where it is
NormalizeAsWritten(tel) ==
    LET digits == SelectSeq(tel, IsDigit)
    IN  IF Len(digits) < 10 THEN None
        ELSE IF ~StartsWith(digits, <<"0">>) THEN None
        ELSE <<digits, Strip(tel)>>

\* normalize_phone_digits(tel): <<digits, display>> or None
normalize_phone_digits(tel) ==
    LET digits0 == SelectSeq(tel, IsDigit)
        digits == IF StartsWith(digits0, <<"8", "1">>) /\ Len(digits0) > 10
                  THEN <<"0">> \o SubSeq(digits0, 3, Len(digits0))
                  ELSE digits0
    IN  IF Len(digits) < 10 THEN None
        ELSE IF ~StartsWith(digits, <<"0">>) THEN None
        ELSE <<digits, Strip(tel)>>

(***************************************************************************)
(* The per-page registry of extract_phone_candidates.                      *)
(* registry: digits -> [display, is_hq]; order: digits in insertion order. *)
(***************************************************************************)
EmptyRegistry == [registry |-> <<>>, order |-> <<>>]

\* a register whose latest call decides the flag of the key
RegisterLatest(reg, tel, is_hq) ==
    LET prepared == normalize_phone_digits(tel)
        digits == prepared[1]
        display == prepared[2]
    IN  IF prepared = None THEN reg
        ELSE [registry |-> (digits :> [display |-> display, is_hq |-> is_hq])
                           @@ reg.registry,
              order |-> IF digits \in DOMAIN reg.registry
                        THEN reg.order ELSE Append(reg.order, digits)]

\* a registry keyed by the digits as they are written in the match
RegisterAsWritten(reg, tel, is_hq) ==
    LET prepared == normalize_phone_digits(tel)
        written == SelectSeq(tel, IsDigit)
    IN  IF prepared = None THEN reg
        ELSE [registry |-> (written :> [display |-> prepared[2],
                                        is_hq |-> is_hq \/
                                            (written \in DOMAIN reg.registry
                                             /\ reg.registry[written].is_hq)])
                           @@ reg.registry,
              order |-> IF written \in DOMAIN reg.registry
                        THEN reg.order ELSE Append(reg.order, written)]

\* a registry whose entries keep the display they were inserted with
RegisterFirstDisplay(reg, tel, is_hq) ==
    LET prepared == normalize_phone_digits(tel)
        digits == prepared[1]
        display == prepared[2]
    IN  IF prepared = None THEN reg
        ELSE IF digits \notin DOMAIN reg.registry
        THEN [registry |-> reg.registry
                           @@ (digits :> [display |-> display, is_hq |-> is_hq]),
              order |-> Append(reg.order, digits)]
        ELSE [reg EXCEPT !.registry[digits].is_hq = @ \/ is_hq]

\* register(tel, is_hq), as a function of the registry it closes over
register(reg, tel, is_hq) ==
    LET prepared == normalize_phone_digits(tel)
        digits == prepared[1]
        display == prepared[2]
        isNew == digits \notin DOMAIN reg.registry
        inserted ==
            IF isNew
            THEN [registry |-> reg.registry
                               @@ (digits :> [display |-> display, is_hq |-> FALSE]),
                  order |-> Append(reg.order, digits)]
            ELSE reg
    IN  IF prepared = None THEN reg
        ELSE IF is_hq
        THEN [inserted EXCEPT !.registry[digits] =
                                  [display |-> display, is_hq |-> TRUE]]
        ELSE inserted

(***************************************************************************)
(* A fetched page, as the parser hands it over:                            *)
(*   text     soup.get_text(" ", strip=True)                               *)
(*   matches  the spans <<start, end>> of PHONE_REGEX.finditer(text)       *)
(*   nodes    the text nodes of the tree, each with its value and the      *)
(*            chain of its ancestors (text and PHONE_REGEX spans of each)  *)
(* and, apart from it, hrefs: urljoin(base_url, href) of every anchor of   *)
(* the page, in document order.                                            *)
(***************************************************************************)
Max(a, b) == IF a >= b THEN a ELSE b
Min(a, b) == IF a <= b THEN a ELSE b

\* text[start:end] of Python
Slice(text, start, end) == SubSeq(text, start + 1, end)

\* the concatenation of a sequence of sequences
Flatten(seqs) ==
    LET upTo[k \in 0..Len(seqs)] == IF k = 0 THEN <<>> ELSE upTo[k - 1] \o seqs[k]
    IN  upTo[Len(seqs)]

\* the register calls of the sweep pass: <<tel, is_hq>> per match
SweepCalls(page, bank) ==
    [i \in DOMAIN page.matches |->
        LET start == page.matches[i][1]
            end == page.matches[i][2]
            tel == Strip(Slice(page.text, start, end))
            context == Slice(page.text, Max(0, start - CONTEXT_WINDOW),
                             Min(Len(page.text), end + CONTEXT_WINDOW))
        IN  <<tel, contains_keyword(context, bank.primary_terms)>>]

\* the segments iterate_nodes yields for one node: the ancestors up to
\* MAX_PARENT_DEPTH, cut at the first one whose text is empty
Segments(ancestors) ==
    LET yielded[depth \in 0..Len(ancestors)] ==
            IF ~(depth < Len(ancestors) /\ depth < MAX_PARENT_DEPTH) THEN <<>>
            ELSE IF ancestors[depth + 1].text = <<>> THEN <<>>
            ELSE <<ancestors[depth + 1]>> \o yielded[depth + 1]
    IN  yielded[0]

\* iterate_nodes()
iterate_nodes(page, bank) ==
    Flatten([i \in DOMAIN page.nodes |->
        IF page.nodes[i].value # <<>>
           /\ contains_keyword(page.nodes[i].value, bank.scan_terms)
        THEN Segments(page.nodes[i].ancestors)
        ELSE <<>>])

\* the register calls of the targeted pass
TargetCalls(page, bank) ==
    LET segments == iterate_nodes(page, bank)
    IN  Flatten([i \in DOMAIN segments |->
            LET segment == segments[i]
                is_hq_segment == contains_keyword(segment.text, bank.primary_terms)
            IN  [k \in DOMAIN segment.matches |->
                    <<Strip(Slice(segment.text, segment.matches[k][1],
                                  segment.matches[k][2])),
                      is_hq_segment>>]])

\* the registry after the register calls <<tel, is_hq>>, made in order
RegisterAll(reg, calls) ==
    LET after[k \in 0..Len(calls)] ==
            IF k = 0 THEN reg
            ELSE register(after[k - 1], calls[k][1], calls[k][2])
    IN  after[Len(calls)]

\* the results list built from the registry, one append per key of order
RegistryResults(reg) ==
    LET listed[k \in 0..Len(reg.order)] ==
            IF k = 0 THEN <<>>
            ELSE LET entry == reg.registry[reg.order[k]]
                 IN  Append(listed[k - 1], <<entry.display, entry.is_hq>>)
    IN  listed[Len(reg.order)]

\* extract_phone_candidates(html, bank): list of <<display, is_hq>>
extract_phone_candidates(page, bank) ==
    RegistryResults(
        RegisterAll(EmptyRegistry,
                    SweepCalls(page, bank) \o TargetCalls(page, bank)))

\* extract_links(html, base_url)
extract_links(hrefs) ==
    LET kept == SelectSeq(hrefs,
                    LAMBDA joined : UrlParse(joined).scheme \in {<<"http">>, <<"https">>})
    IN  [i \in DOMAIN kept |-> GetUrl(UrlParse(kept[i]))]

(***************************************************************************)
(* The inputs explored: keyword files, CSV rows, pages of the web.         *)
(***************************************************************************)
HQ == <<"H", "Q">>
Br == <<"b", "r">>
Tel == <<"T", "e", "l">>
TelA == <<"0", "3", "-", "1", "2", "3", "4", "-", "5", "6", "7", "8">>
\* TelA with its country code, grouped so that PHONE_REGEX matches all of it
TelA81 == <<"+", "8", "1", "-", "3", "1", "2", "3", "-", "4", "5", "6", "7", "8">>
TelB == <<"0", "6", "-", "9", "9", "9", "9", "-", "8", "8", "8", "8">>
\* matches of PHONE_REGEX that normalize_phone_digits rejects: a postal
\* code, a number without trunk prefix, ten digits that begin with 81
TelShort == <<"1", "2", "3", "-", "4", "5", "6", "7">>
TelNoTrunk == <<"1", "2", "3", "4", "-", "5", "6", "7", "8", "-", "9", "0", "1", "2">>
Tel81Ten == <<"8", "1", "-", "1", "2", "3", "4", "-", "5", "6", "7", "8">>
\* text longer than the context window of the sweep pass
Filler == [i \in 1..(CONTEXT_WINDOW + 1) |-> "x"]

\* the possible contents of the keyword JSON file
KeywordFiles ==
    { [primary_terms |-> << <<" ", "H", "Q", " ">> >>, support_terms |-> <<Tel>>],
      [primary_terms |-> << Br, <<>> >>, support_terms |-> <<>>],
      [primary_terms |-> << <<" ">>, <<>> >>, support_terms |-> <<Tel>>],
      [primary_terms |-> <<>>, support_terms |-> <<HQ>>] }

\* the possible values of the url column of a CSV row
RawUrls ==
    { <<" ", "a.jp", ":", "8080", " ">>,
      <<"HTTPS", ":", "/", "/", "a.jp", "/", "p">>,
      <<"/", "p">>,
      <<" ">> }

\* a piece of rendered text; tel marks a PHONE_REGEX match
Word(s) == [s |-> s, tel |-> FALSE]
Phone(s) == [s |-> s, tel |-> TRUE]

\* the pieces joined by single blanks, as get_text(" ", strip=True) renders
Join(parts) ==
    LET upTo[k \in 0..Len(parts)] ==
            IF k = 0 THEN <<>>
            ELSE IF k = 1 THEN parts[1].s
            ELSE upTo[k - 1] \o <<" ">> \o parts[k].s
    IN  upTo[Len(parts)]

\* the spans <<start, end>> finditer reports for the pieces that match
Spans(parts) ==
    LET offset[k \in 1..Len(parts)] ==
            IF k = 1 THEN 0 ELSE offset[k - 1] + Len(parts[k - 1].s) + 1
    IN  Flatten([k \in DOMAIN parts |->
            IF parts[k].tel
            THEN << <<offset[k], offset[k] + Len(parts[k].s)>> >> ELSE <<>>])

\* an element of the tree: its rendered text and the matches in it
Elem(parts) == [text |-> Join(parts), matches |-> Spans(parts)]

\* a page whose body holds one text node per piece, all in one element
Body(parts) ==
    [text |-> Join(parts),
     matches |-> Spans(parts),
     nodes |-> [i \in DOMAIN parts |->
                  [value |-> parts[i].s, ancestors |-> <<Elem(parts), Elem(parts)>>]]]

\* a page whose pieces sit in elements of their own, nested four deep
Nested(parts) ==
    [text |-> Join(parts),
     matches |-> Spans(parts),
     nodes |-> [i \in DOMAIN parts |->
                  [value |-> parts[i].s,
                   ancestors |-> <<Elem(<<parts[i]>>), Elem(<<parts[i]>>),
                                   Elem(<<parts[i]>>), Elem(parts), Elem(parts)>>]]]

\* the page bodies of the web
Bodies ==
    << Body(<<Word(Br)>>),
       Body(<<Word(HQ), Phone(TelA)>>),
       Body(<<Word(Br), Phone(TelB), Phone(TelA)>>),
       Body(<<Phone(TelB), Phone(TelShort), Phone(TelA)>>),
       Body(<<Word(Tel), Phone(TelA81)>>),
       Body(<<Word(HQ), Word(Filler), Word(Tel), Phone(TelA)>>),
       Nested(<<Word(HQ), Word(Filler), Word(Tel), Phone(TelA)>>),
       Nested(<<Phone(TelB), Word(Filler), Word(HQ), Phone(TelA)>>) >>

\* the absolute URLs anchors resolve to
Hrefs ==
    { <<"https", ":", "/", "/", "a.jp", ":", "8080">>,
      <<"HTTP", ":", "/", "/", "a.jp", ":", "8080", "/", "p">>,
      <<"ftp", ":", "/", "/", "a.jp", ":", "8080", "/", "p">> }

\* sequences over S of length at most n
SeqUpTo(S, n) == UNION {[1..k -> S] : k \in 0..n}

\* the anchors a page can hold
HrefLists == SeqUpTo(Hrefs, MaxLinks)

(***************************************************************************)
(* State of one batch run (run, crawl_for_hq_phone).                       *)
(***************************************************************************)
VARIABLES
    pc,             \* where run is: "load", "read", "loop", "fetch", "sleep",
                    \* "written", "aborted"; for a function called on its
                    \* own: "register", "collected", "same_domain", "returned",
                    \* "normalize", "normalized", "renormalized"
    max_pages,      \* --max-pages
    delay,          \* --delay
    keyword_file,   \* the parsed content of the --keywords file
    keywords,       \* the keyword bank run loaded
    csv,            \* the url column of the input CSV, row by row
    row,            \* the number of rows read_urls has read
    results,        \* run's results list: <<url, tel>> per crawled row
    output,         \* the rows write_results wrote
    start_url,      \* crawl_for_hq_phone's argument
    target_domain,  \* crawl_for_hq_phone's locals
    queue,
    visited,
    hq_numbers,     \* dicts, as sequences of <<digits, display>> in insertion order
    all_numbers,
    current,
    outcome,        \* how the last crawl returned: "none", "invalid", "early", "exhausted"
    log,            \* what the crawl in progress did, in order: the URL of each
                    \* fetch, NoContentMark after a fetch that gave nothing,
                    \* SleepMark per sleep, SkipMark per visited URL dequeued
    unit_arg,       \* the arguments of a function called on its own
    unit_ret,       \* what that call returned
    page_registry,  \* the registry of one extract_phone_candidates call
    register_log    \* the register calls made on it so far: <<tel, is_hq>>

crawlVars == <<start_url, target_domain, queue, visited, hq_numbers, all_numbers,
               current, outcome, log>>
runVars == <<pc, max_pages, delay, keyword_file, keywords, csv, row, results,
            output>>
unitVars == <<unit_arg, unit_ret, page_registry, register_log>>
vars == <<pc, max_pages, delay, keyword_file, keywords, csv, row, results, output, start_url,
          target_domain, queue, visited, hq_numbers, all_numbers, current,
          outcome, log, unit_arg, unit_ret, page_registry, register_log>>

NoKeywords == [primary_terms |-> {}, scan_terms |-> {}]
SleepMark == <<"sleep">>
SkipMark == <<"skip">>
NoContentMark == <<"no content">>

\* the keys of a dict
Keys(d) == {d[i][1] : i \in DOMAIN d}

\* one turn of the loop over extract_phone_candidates' result
\* a dict assignment without the `not in` test: the entry keeps its place
\* and takes the new display
Overwrite(d, digits, display) ==
    IF digits \in Keys(d)
    THEN [i \in DOMAIN d |-> IF d[i][1] = digits THEN <<digits, display>> ELSE d[i]]
    ELSE Append(d, <<digits, display>>)

\* the numbers of a page collected with the display seen last
CollectOneLatest(nums, tel, is_hq) ==
    LET normalized == normalize_phone_digits(tel)
    IN  IF normalized = None THEN nums
        ELSE [all |-> Overwrite(nums.all, normalized[1], normalized[2]),
              hq |-> IF is_hq THEN Overwrite(nums.hq, normalized[1], normalized[2])
                     ELSE nums.hq]

CollectOne(nums, tel, is_hq) ==
    LET normalized == normalize_phone_digits(tel)
        digits == normalized[1]
        display == normalized[2]
    IN  IF normalized = None THEN nums
        ELSE [all |-> IF digits \notin Keys(nums.all)
                      THEN Append(nums.all, <<digits, display>>) ELSE nums.all,
              hq |-> IF is_hq /\ digits \notin Keys(nums.hq)
                     THEN Append(nums.hq, <<digits, display>>) ELSE nums.hq]

\* the loop over extract_phone_candidates' result in crawl_for_hq_phone
Collect(nums, candidates) ==
    LET after[k \in 0..Len(candidates)] ==
            IF k = 0 THEN nums
            ELSE CollectOne(after[k - 1], candidates[k][1], candidates[k][2])
    IN  after[Len(candidates)]

\* the links of a page on the domain and not yet seen, the last one first
LinksLastFirst(hrefs, domain, seen) ==
    LET found == SelectSeq(extract_links(hrefs),
                           LAMBDA link : same_domain(link, domain) /\ link \notin seen)
    IN  [i \in 1..Len(found) |-> found[Len(found) + 1 - i]]

\* the links crawl_for_hq_phone appends to the queue
NewLinks(hrefs, domain, seen) ==
    SelectSeq(extract_links(hrefs),
              LAMBDA link : same_domain(link, domain) /\ link \notin seen)

\* the value inserted last
LastValue(d) == d[Len(d)][2]

\* next(iter(d.values())): the value inserted first
FirstValue(d) == d[1][2]

\* a test that no dict passes
NeverTrue(hq) == FALSE

\* `if hq_numbers:` after the page's candidates were collected
FoundHQ(hq) == hq # <<>>

\* a fallback on the first number seen, however many there are
FallbackOnFirst(all) == IF all # <<>> THEN FirstValue(all) ELSE None

\* the value crawl_for_hq_phone returns after its loop
Fallback(all) == IF Len(all) = 1 THEN FirstValue(all) ELSE None

\* the keyword banks load_keyword_bank can return
Banks ==
    {load_keyword_bank(data) : data \in KeywordFiles} \ {InvalidConfig}

\* extract_phone_candidates of every page body under every bank, tabulated
\* as <<bank, body, candidates>>
CandidateTable ==
    {<<bank, b, extract_phone_candidates(Bodies[b], bank)>> :
        bank \in Banks, b \in DOMAIN Bodies}

Candidates(bank, b) ==
    (CHOOSE entry \in CandidateTable : entry[1] = bank /\ entry[2] = b)[3]

\* a loop that runs while the queue holds anything, whatever was visited
LoopWhileQueued == queue # <<>>

\* the loop condition of crawl_for_hq_phone
LoopCondition == queue # <<>> /\ Cardinality(visited) < max_pages

Init ==
    /\ pc = "load"
    /\ csv \in SeqUpTo(RawUrls, MaxRows)
    /\ max_pages \in 0..MaxFetches
    /\ Len(csv) * max_pages <= MaxFetches
    /\ delay \in {0, 1}
    /\ keyword_file \in KeywordFiles
    /\ keywords = NoKeywords
    /\ row = 0
    /\ results = <<>>
    /\ output = <<>>
    /\ start_url = <<>>
    /\ target_domain = <<>>
    /\ queue = <<>>
    /\ visited = {}
    /\ hq_numbers = <<>>
    /\ all_numbers = <<>>
    /\ current = <<>>
    /\ outcome = "none"
    /\ log = <<>>
    /\ unit_arg = <<>>
    /\ unit_ret = <<>>
    /\ page_registry = EmptyRegistry
    /\ register_log = <<>>

\* run: load_keyword_bank; a ValueError ends the program in main
LoadKeywords ==
    /\ pc = "load"
    /\ LET bank == load_keyword_bank(keyword_file)
       IN  IF bank = InvalidConfig
           THEN pc' = "aborted" /\ UNCHANGED keywords
           ELSE pc' = "read" /\ keywords' = bank
    /\ UNCHANGED <<max_pages, delay, keyword_file, csv, row, results, output>>
    /\ UNCHANGED crawlVars
    /\ UNCHANGED unitVars

\* read_urls: a row whose url is blank is skipped
SkipBlankRow ==
    /\ pc = "read"
    /\ row < Len(csv)
    /\ Strip(csv[row + 1]) = <<>>
    /\ row' = row + 1
    /\ UNCHANGED <<pc, max_pages, delay, keyword_file, keywords, csv, results, output>>
    /\ UNCHANGED crawlVars
    /\ UNCHANGED unitVars

\* a run that ends at a row whose URL normalize_url rejects
CrawlInvalidFatal ==
    /\ pc = "read"
    /\ row < Len(csv)
    /\ LET url == Strip(csv[row + 1])
       IN  /\ url # <<>>
           /\ normalize_url(url) = InvalidURL
           /\ start_url' = url
    /\ row' = row + 1
    /\ outcome' = "invalid"
    /\ pc' = "aborted"
    /\ UNCHANGED <<max_pages, delay, keyword_file, keywords, csv, results, output>>
    /\ UNCHANGED <<target_domain, queue, visited, hq_numbers, all_numbers,
                   current, log>>
    /\ UNCHANGED unitVars

\* run reads a row and calls crawl_for_hq_phone, whose normalize_url raises
CrawlInvalid ==
    /\ pc = "read"
    /\ row < Len(csv)
    /\ LET url == Strip(csv[row + 1])
       IN  /\ url # <<>>
           /\ normalize_url(url) = InvalidURL
           /\ start_url' = url
           /\ results' = Append(results, <<url, None>>)
    /\ row' = row + 1
    /\ target_domain' = <<>>
    /\ queue' = <<>>
    /\ visited' = {}
    /\ hq_numbers' = <<>>
    /\ all_numbers' = <<>>
    /\ current' = <<>>
    /\ outcome' = "invalid"
    /\ log' = <<>>
    /\ UNCHANGED <<pc, max_pages, delay, keyword_file, keywords, csv, output>>
    /\ UNCHANGED unitVars

\* run reads a row and calls crawl_for_hq_phone, which reaches its loop
CrawlStart ==
    /\ pc = "read"
    /\ row < Len(csv)
    /\ LET url == Strip(csv[row + 1])
           start == normalize_url(url)
       IN  /\ url # <<>>
           /\ start # InvalidURL
           /\ start_url' = url
           /\ target_domain' = UrlParse(start).netloc
           /\ queue' = <<start>>
    /\ row' = row + 1
    /\ visited' = {}
    /\ hq_numbers' = <<>>
    /\ all_numbers' = <<>>
    /\ current' = <<>>
    /\ outcome' = "none"
    /\ log' = <<>>
    /\ pc' = "loop"
    /\ UNCHANGED <<max_pages, delay, keyword_file, keywords, csv, results, output>>
    /\ UNCHANGED unitVars

\* loop head: the dequeued URL was visited already
DequeueVisited ==
    /\ pc = "loop"
    /\ LoopCondition
    /\ Head(queue) \in visited
    /\ current' = Head(queue)
    /\ queue' = Tail(queue)
    /\ log' = Append(log, SkipMark)
    /\ UNCHANGED runVars
    /\ UNCHANGED <<start_url, target_domain, visited, hq_numbers, all_numbers,
                   outcome>>
    /\ UNCHANGED unitVars

\* loop head: the dequeued URL is fetched, visited or not
DequeueAny ==
    /\ pc = "loop"
    /\ LoopCondition
    /\ current' = Head(queue)
    /\ queue' = Tail(queue)
    /\ visited' = visited \cup {Head(queue)}
    /\ pc' = "fetch"
    /\ UNCHANGED <<max_pages, delay, keyword_file, keywords, csv, row, results, output>>
    /\ UNCHANGED <<start_url, target_domain, hq_numbers, all_numbers, outcome, log>>
    /\ UNCHANGED unitVars

\* loop head: the dequeued URL is new and is about to be fetched
DequeueNew ==
    /\ pc = "loop"
    /\ LoopCondition
    /\ Head(queue) \notin visited
    /\ current' = Head(queue)
    /\ queue' = Tail(queue)
    /\ visited' = visited \cup {Head(queue)}
    /\ pc' = "fetch"
    /\ UNCHANGED <<max_pages, delay, keyword_file, keywords, csv, row, results, output>>
    /\ UNCHANGED <<start_url, target_domain, hq_numbers, all_numbers, outcome, log>>
    /\ UNCHANGED unitVars

\* a fetch without content that ends the whole run
FetchNothingFatal ==
    /\ pc = "fetch"
    /\ log' = log \o <<current, NoContentMark>>
    /\ pc' = "aborted"
    /\ UNCHANGED <<max_pages, delay, keyword_file, keywords, csv, row, results, output>>
    /\ UNCHANGED <<start_url, target_domain, queue, visited, hq_numbers,
                   all_numbers, current, outcome>>
    /\ UNCHANGED unitVars

\* fetch returned None (or an empty body): `continue`
FetchNothing ==
    /\ pc = "fetch"
    /\ log' = log \o <<current, NoContentMark>>
    /\ pc' = "loop"
    /\ UNCHANGED <<max_pages, delay, keyword_file, keywords, csv, row, results, output>>
    /\ UNCHANGED <<start_url, target_domain, queue, visited, hq_numbers,
                   all_numbers, current, outcome>>
    /\ UNCHANGED unitVars

\* fetch returned a page, its body one of those numbered in bodies and its
\* anchors one of anchorLists: extraction, then early exit or link discovery
FetchPageFrom(bodies, anchorLists) ==
    /\ pc = "fetch"
    /\ log' = Append(log, current)
    /\ \E b \in bodies :
        LET nums == Collect([all |-> all_numbers, hq |-> hq_numbers],
                            Candidates(keywords, b))
        IN  /\ all_numbers' = nums.all
            /\ hq_numbers' = nums.hq
            /\ IF FoundHQ(nums.hq)
               THEN /\ results' = Append(results, <<start_url, FirstValue(nums.hq)>>)
                    /\ outcome' = "early"
                    /\ pc' = "read"
                    /\ UNCHANGED queue
               ELSE /\ \E hrefs \in anchorLists :
                        queue' = queue \o NewLinks(hrefs, target_domain, visited)
                    /\ pc' = IF delay # 0 THEN "sleep" ELSE "loop"
                    /\ UNCHANGED <<results, outcome>>
    /\ UNCHANGED <<max_pages, delay, keyword_file, keywords, csv, row, output>>
    /\ UNCHANGED <<start_url, target_domain, visited, current>>
    /\ UNCHANGED unitVars

\* fetch returned one of the pages of the web
FetchPage == FetchPageFrom(DOMAIN Bodies, HrefLists)

\* time.sleep(delay)
Sleep ==
    /\ pc = "sleep"
    /\ log' = Append(log, SleepMark)
    /\ pc' = "loop"
    /\ UNCHANGED <<max_pages, delay, keyword_file, keywords, csv, row, results, output>>
    /\ UNCHANGED <<start_url, target_domain, queue, visited, hq_numbers,
                   all_numbers, current, outcome>>
    /\ UNCHANGED unitVars

\* a loop that is left when the queue is empty and not otherwise
LoopExitWhenEmpty ==
    /\ pc = "loop"
    /\ queue = <<>>
    /\ results' = Append(results, <<start_url, Fallback(all_numbers)>>)
    /\ outcome' = "exhausted"
    /\ pc' = "read"
    /\ UNCHANGED <<max_pages, delay, keyword_file, keywords, csv, row, output>>
    /\ UNCHANGED <<start_url, target_domain, queue, visited, hq_numbers,
                   all_numbers, current, log>>
    /\ UNCHANGED unitVars

\* the loop ended: the fallback on the numbers seen, and the return to run
LoopExit ==
    /\ pc = "loop"
    /\ ~LoopCondition
    /\ results' = Append(results, <<start_url, Fallback(all_numbers)>>)
    /\ outcome' = "exhausted"
    /\ pc' = "read"
    /\ UNCHANGED <<max_pages, delay, keyword_file, keywords, csv, row, output>>
    /\ UNCHANGED <<start_url, target_domain, queue, visited, hq_numbers,
                   all_numbers, current, log>>
    /\ UNCHANGED unitVars

\* write_results: a missing tel is written as the empty string
WriteResults ==
    /\ pc = "read"
    /\ row = Len(csv)
    /\ output' = [i \in DOMAIN results |->
                    <<results[i][1],
                      IF results[i][2] = None THEN <<>> ELSE results[i][2]>>]
    /\ pc' = "written"
    /\ UNCHANGED <<max_pages, delay, keyword_file, keywords, csv, row, results>>
    /\ UNCHANGED crawlVars
    /\ UNCHANGED unitVars

Next ==
    \/ LoadKeywords
    \/ SkipBlankRow
    \/ CrawlInvalid
    \/ CrawlStart
    \/ DequeueVisited
    \/ DequeueNew
    \/ FetchNothing
    \/ FetchPage
    \/ Sleep
    \/ LoopExit
    \/ WriteResults

Spec == Init /\ [][Next]_vars

\* a crawl is one sequential loop: a step of it that can be taken is taken
\* (fetch gives up after DEFAULT_TIMEOUT, sleep lasts delay seconds)
FairSpec ==
    /\ Spec
    /\ WF_vars(DequeueVisited)
    /\ WF_vars(DequeueNew)
    /\ WF_vars(FetchNothing \/ FetchPage)
    /\ WF_vars(Sleep)
    /\ WF_vars(LoopExit)

(***************************************************************************)
(* One crawl of a site whose link graph is known: every page has a body    *)
(* without phone numbers and the anchors the site gives for its URL.       *)
(***************************************************************************)
\* the page of the site a.jp with the name given, "" for the home page
SitePage(name) ==
    <<"https", ":", "/", "/", "a.jp">> \o (IF name = "" THEN <<>> ELSE <<"/", name>>)

SitePages == {SitePage(name) : name \in {"", "a", "b", "c", "y", "z"}}

\* a page of another site
OffSite == <<"https", ":", "/", "/", "b.jp", "/", "x">>

\* a site where page y is linked from a, near the home page, and from c,
\* further away, and where z links back to the home page
SiteShortcut ==
    [u \in SitePages |->
        CASE u = SitePage("") -> <<SitePage("a"), SitePage("b"), OffSite>>
          [] u = SitePage("a") -> <<SitePage("y")>>
          [] u = SitePage("b") -> <<SitePage("c")>>
          [] u = SitePage("c") -> <<SitePage("z"), SitePage("y")>>
          [] u = SitePage("z") -> <<SitePage("")>>
          [] OTHER -> <<>>]

\* a site whose pages link to themselves, to each other and twice to one page
SiteCycles ==
    [u \in SitePages |->
        CASE u = SitePage("") -> <<SitePage(""), SitePage("a"), SitePage("a"),
                                   SitePage("b")>>
          [] u = SitePage("a") -> <<SitePage("b"), SitePage(""), SitePage("c")>>
          [] u = SitePage("b") -> <<SitePage("a"), OffSite, SitePage("c")>>
          [] u = SitePage("c") -> <<SitePage("c"), SitePage("b")>>
          [] OTHER -> <<>>]

Sites == {SiteShortcut, SiteCycles}

\* run has loaded its keywords and is about to read the one row of the CSV
InitSite ==
    /\ pc = "read"
    /\ max_pages \in 0..MaxSitePages
    /\ delay \in {0, 1}
    /\ keyword_file = [primary_terms |-> << <<" ", "H", "Q", " ">> >>,
                       support_terms |-> <<Tel>>]
    /\ keywords = load_keyword_bank(keyword_file)
    /\ csv = << <<"a.jp">> >>
    /\ row = 0
    /\ results = <<>>
    /\ output = <<>>
    /\ start_url = <<>>
    /\ target_domain = <<>>
    /\ queue = <<>>
    /\ visited = {}
    /\ hq_numbers = <<>>
    /\ all_numbers = <<>>
    /\ current = <<>>
    /\ outcome = "none"
    /\ log = <<>>
    /\ unit_arg \in Sites
    /\ unit_ret = <<>>
    /\ page_registry = EmptyRegistry
    /\ register_log = <<>>

\* fetch returned the page the site has at the URL
FetchSitePage == FetchPageFrom({1}, {unit_arg[current]})

NextSite ==
    \/ CrawlStart
    \/ DequeueVisited
    \/ DequeueNew
    \/ FetchNothing
    \/ FetchSitePage
    \/ Sleep
    \/ LoopExit

SpecSite == InitSite /\ [][NextSite]_vars

(***************************************************************************)
(* Functions called on their own.  The batch run stands still: its         *)
(* variables keep the values below.                                        *)
(***************************************************************************)
RunIdle ==
    /\ max_pages = 0
    /\ delay = 0
    /\ keyword_file = [primary_terms |-> <<>>, support_terms |-> <<>>]
    /\ keywords = NoKeywords
    /\ csv = <<>>
    /\ row = 0
    /\ results = <<>>
    /\ output = <<>>
    /\ start_url = <<>>
    /\ target_domain = <<>>
    /\ queue = <<>>
    /\ visited = {}
    /\ hq_numbers = <<>>
    /\ all_numbers = <<>>
    /\ current = <<>>
    /\ outcome = "none"
    /\ log = <<>>

\* the texts PHONE_REGEX can match on a page
Matches == {TelA, TelA81, TelB, TelShort, TelNoTrunk, Tel81Ten}

\* all_numbers as the pages fetched before this one can have left it
EarlierNumbers == {<<>>, << normalize_phone_digits(TelA81) >>}

\* extract_phone_candidates has created its registry
InitRegister ==
    /\ pc = "register"
    /\ max_pages = 0
    /\ delay = 0
    /\ keyword_file = [primary_terms |-> <<>>, support_terms |-> <<>>]
    /\ keywords = NoKeywords
    /\ csv = <<>>
    /\ row = 0
    /\ results = <<>>
    /\ output = <<>>
    /\ start_url = <<>>
    /\ target_domain = <<>>
    /\ queue = <<>>
    /\ visited = {}
    /\ hq_numbers = <<>>
    /\ all_numbers \in EarlierNumbers
    /\ current = <<>>
    /\ outcome = "none"
    /\ log = <<>>
    /\ unit_arg = <<>>
    /\ unit_ret = <<>>
    /\ page_registry = EmptyRegistry
    /\ register_log = <<>>

\* one call register(tel, is_hq) of the sweep or the targeted pass
RegisterCall ==
    /\ pc = "register"
    /\ Len(register_log) < MaxCalls
    /\ \E tel \in Matches, is_hq \in BOOLEAN :
        /\ page_registry' = register(page_registry, tel, is_hq)
        /\ register_log' = Append(register_log, <<tel, is_hq>>)
    /\ UNCHANGED <<runVars, crawlVars, unit_arg, unit_ret>>

\* extract_phone_candidates returns its results and crawl_for_hq_phone
\* collects them
ReturnCandidates ==
    /\ pc = "register"
    /\ LET candidates == RegistryResults(page_registry)
           nums == Collect([all |-> all_numbers, hq |-> hq_numbers], candidates)
       IN  /\ unit_ret' = candidates
           /\ all_numbers' = nums.all
           /\ hq_numbers' = nums.hq
    /\ pc' = "collected"
    /\ UNCHANGED <<max_pages, delay, keyword_file, keywords, csv, row, results,
                   output>>
    /\ UNCHANGED <<start_url, target_domain, queue, visited, current, outcome, log>>
    /\ UNCHANGED <<unit_arg, page_registry, register_log>>

NextRegister ==
    \/ RegisterCall
    \/ ReturnCandidates

SpecRegister == InitRegister /\ [][NextRegister]_vars

\* the URLs the same-domain test is explored on, by their parts
UrlParts ==
    [scheme : {"http", "https"},
     host : {"a.jp", "www.a.jp", "b.jp"},
     port : {<<>>, <<":", "8080">>},
     path : {<<>>, <<"/", "p">>}]

\* the URL with the parts given
MkUrl(parts) ==
    <<parts.scheme, ":", "/", "/", parts.host>> \o parts.port \o parts.path

\* target_domain of the crawl that starts at the URL given
TargetDomain(raw_url) == UrlParse(normalize_url(raw_url)).netloc

\* a crawl that started at unit_arg.start has found the link unit_arg.url
InitDomain ==
    /\ pc = "same_domain"
    /\ RunIdle
    /\ unit_arg \in [url : UrlParts, start : UrlParts]
    /\ unit_ret = <<>>
    /\ page_registry = EmptyRegistry
    /\ register_log = <<>>

\* same_domain(link, target_domain), as crawl_for_hq_phone calls it
SameDomainCall ==
    /\ pc = "same_domain"
    /\ unit_ret' = <<same_domain(MkUrl(unit_arg.url),
                                 TargetDomain(MkUrl(unit_arg.start)))>>
    /\ pc' = "returned"
    /\ UNCHANGED <<max_pages, delay, keyword_file, keywords, csv, row, results,
                   output>>
    /\ UNCHANGED <<crawlVars, unit_arg, page_registry, register_log>>

NextDomain == SameDomainCall

SpecDomain == InitDomain /\ [][NextDomain]_vars

\* the domestic digit strings explored: a leading 0 and 8 digits or more
DomesticNumbers ==
    {<<"0">> \o tail : tail \in UNION {[1..n -> {"1", "8"}] : n \in 8..(MaxDigits - 1)}}

\* the separators explored between the groups of a number
Separators == {<<>>, <<"-">>, <<" ">>}

\* the +81 form of the domestic number d: 81, then d without its leading
\* 0, in groups, with the separator and the optional + given
Intl(d, plus, sep) ==
    (IF plus THEN <<"+">> ELSE <<>>) \o <<"8", "1">> \o sep \o <<d[2]>> \o sep
        \o SubSeq(d, 3, 6) \o sep \o SubSeq(d, 7, Len(d))

\* a number is about to be normalised in both its spellings
InitPhone ==
    /\ pc = "normalize"
    /\ RunIdle
    /\ unit_arg \in [d : DomesticNumbers, plus : BOOLEAN, sep : Separators]
    /\ unit_ret = <<>>
    /\ page_registry = EmptyRegistry
    /\ register_log = <<>>

\* normalize_phone_digits of the domestic spelling and of the +81 form
NormalizeCall ==
    /\ pc = "normalize"
    /\ unit_ret' = <<normalize_phone_digits(unit_arg.d),
                     normalize_phone_digits(
                         Intl(unit_arg.d, unit_arg.plus, unit_arg.sep))>>
    /\ pc' = "normalized"
    /\ UNCHANGED <<max_pages, delay, keyword_file, keywords, csv, row, results,
                   output>>
    /\ UNCHANGED <<crawlVars, unit_arg, page_registry, register_log>>

\* normalize_phone_digits of the digits a call has returned
Renormalize(normalized) ==
    IF normalized = None THEN None ELSE normalize_phone_digits(normalized[1])

\* normalize_phone_digits again, on the digits of each of the two results
NormalizeAgain ==
    /\ pc = "normalized"
    /\ unit_ret' = unit_ret \o <<Renormalize(unit_ret[1]), Renormalize(unit_ret[2])>>
    /\ pc' = "renormalized"
    /\ UNCHANGED <<max_pages, delay, keyword_file, keywords, csv, row, results,
                   output>>
    /\ UNCHANGED <<crawlVars, unit_arg, page_registry, register_log>>

NextPhone ==
    \/ NormalizeCall
    \/ NormalizeAgain

SpecPhone == InitPhone /\ [][NextPhone]_vars

(***************************************************************************)
(* Properties of one crawl.                                                *)
(***************************************************************************)
\* the URLs the crawl in progress has passed to fetch, in order
Fetched == SelectSeq(log, LAMBDA e : e \notin {SleepMark, SkipMark, NoContentMark})

\* the crawl in progress has dequeued a URL and not yet fetched it
InFlight == IF pc = "fetch" THEN 1 ELSE 0

\* C1: with max_pages >= 1 the visited set never holds more than max_pages
\* URLs; every visited URL accounts for exactly one fetch attempt (made or
\* about to be made), so a dequeued URL that was visited already adds
\* nothing; and with max_pages = 1 nothing but the start URL is fetched.
C1_VisitedWithinBudget ==
    max_pages >= 1 =>
        /\ Cardinality(visited) <= max_pages
        /\ Len(Fetched) + InFlight = Cardinality(visited)
        /\ Len(Fetched) <= max_pages
        /\ max_pages = 1 =>
               \A i \in DOMAIN Fetched : Fetched[i] = normalize_url(start_url)

\* a visited URL came off the queue again, with budget left, after a page
\* linked back to it
C1_Witness ==
    /\ pc = "loop"
    /\ max_pages >= 1
    /\ log # <<>>
    /\ log[Len(log)] = SkipMark
    /\ current \in visited
    /\ Cardinality(visited) = Len(Fetched)
    /\ Cardinality(visited) < max_pages

\* the crawl in progress or last made has returned to run
Returned == pc \in {"read", "written"}

\* C2: whenever hq_numbers is non-empty the crawl has returned, at the page
\* that made it so, with the entry inserted first as its result; nothing is
\* fetched afterwards whatever the queue holds and whatever budget is left.
C2_EarlyExit ==
    hq_numbers # <<>> =>
        /\ outcome = "early"
        /\ Returned
        /\ log[Len(log)] = current
        /\ results # <<>>
        /\ results[Len(results)] = <<start_url, hq_numbers[1][2]>>

\* the second page yielded the HQ number while a queued URL and budget
\* remained, and the first page had given a number that was no HQ number
C2_Witness ==
    /\ outcome = "early"
    /\ Returned
    /\ Len(Fetched) = 2
    /\ queue # <<>>
    /\ Cardinality(visited) < max_pages
    /\ Len(all_numbers) > Len(hq_numbers)
    /\ all_numbers[1] # hq_numbers[1]

\* the result run recorded last
LastResult == results[Len(results)]

\* C3: a crawl whose loop ended without an HQ number returns the display
\* text of the only entry of all_numbers when all_numbers holds exactly
\* one digits key, and nothing when it holds none or several.
C3_Fallback ==
    outcome = "exhausted" =>
        /\ Returned
        /\ ~LoopCondition
        /\ hq_numbers = <<>>
        /\ Cardinality(Keys(all_numbers)) = Len(all_numbers)
        /\ results # <<>>
        /\ LastResult[1] = start_url
        /\ Len(all_numbers) = 1 <=> LastResult[2] # None
        /\ Len(all_numbers) = 1 => LastResult[2] = all_numbers[1][2]

\* two pages were fetched, the frontier ran dry, and the one number seen on
\* them became the result
C3_Witness ==
    /\ outcome = "exhausted"
    /\ Len(Fetched) = 2
    /\ queue = <<>>
    /\ Len(all_numbers) = 1
    /\ LastResult = <<start_url, all_numbers[1][2]>>

\* C4: every URL in the queue and every URL fetched or visited has the
\* network location of the normalized start URL.
C4_FrontierSameDomain ==
    \A u \in Range(queue) \cup Range(Fetched) \cup visited :
        UrlParse(u).netloc = UrlParse(normalize_url(start_url)).netloc

\* a page was fetched and a link it gave, other than the start URL, is queued
C4_Witness ==
    /\ pc = "loop"
    /\ Fetched # <<>>
    /\ queue # <<>>
    /\ Head(queue) # normalize_url(start_url)
    /\ UrlParse(Head(queue)).netloc = target_domain

(***************************************************************************)
(* Properties of the per-page registry.                                    *)
(***************************************************************************)
\* the digits key of the k-th register call, None if the call was dropped
CallKey(k) ==
    LET prepared == normalize_phone_digits(register_log[k][1])
    IN  IF prepared = None THEN None ELSE prepared[1]

\* C5: after any sequence of register calls the registry holds exactly the
\* digits keys registered, and the is_hq flag of a key is true iff one of
\* the calls made for that key so far was an HQ call; as this holds after
\* every call, no later call of either kind takes the flag back.
C5_StickyHQ ==
    /\ DOMAIN page_registry.registry
           = {CallKey(k) : k \in DOMAIN register_log} \ {None}
    /\ \A digits \in DOMAIN page_registry.registry :
           page_registry.registry[digits].is_hq
               <=> \E k \in DOMAIN register_log :
                       CallKey(k) = digits /\ register_log[k][2]

\* a number registered as HQ was registered again, spelt differently and
\* not as HQ, and is still flagged
C5_Witness ==
    /\ Len(register_log) >= 2
    /\ register_log[1] = <<TelA, TRUE>>
    /\ register_log[2] = <<TelA81, FALSE>>
    /\ CallKey(1) = CallKey(2)
    /\ page_registry.registry[CallKey(1)].is_hq

(***************************************************************************)
(* Properties of failures.                                                 *)
(***************************************************************************)
\* the crawl has just logged that the page it fetched gave no content
SkippedNoContent == log # <<>> /\ log[Len(log)] = NoContentMark

\* C6: the step that finds a fetched page without content leaves the page
\* visited, leaves all_numbers, hq_numbers, the queue and the results as
\* they were, takes no exit, and hands control back to the head of the loop.
C6_NoContentSkipped ==
    [][(log' # log /\ SkippedNoContent') =>
            /\ log' = log \o <<current, NoContentMark>>
            /\ current \in visited
            /\ visited' = visited
            /\ all_numbers' = all_numbers
            /\ hq_numbers' = hq_numbers
            /\ queue' = queue
            /\ results' = results
            /\ outcome' = "none"
            /\ pc' = "loop"]_vars

\* the second page gave no content while the first had given a number and a
\* queued URL and budget remain: the crawl goes on
C6_Witness ==
    /\ SkippedNoContent
    /\ pc = "loop"
    /\ Len(Fetched) = 2
    /\ all_numbers # <<>>
    /\ LoopCondition

\* the URLs read_urls yields for the rows given
UrlsOf(rows) ==
    SelectSeq([i \in DOMAIN rows |-> Strip(rows[i])], LAMBDA url : url # <<>>)

\* a crawl is between its call and its return
Crawling == pc \in {"loop", "fetch", "sleep"}

\* C7: a crawl whose start URL normalize_url rejects returns None without
\* a fetch; the run goes on with the rows that follow, so that the results
\* are, in order, one per URL read so far (the URL under crawl excepted),
\* and the rows written are one per URL of the input, in input order, the
\* rejected ones with an empty tel.
C7_InvalidUrlSkipped ==
    /\ outcome = "invalid" =>
           /\ Returned
           /\ normalize_url(start_url) = InvalidURL
           /\ log = <<>> /\ visited = {} /\ queue = <<>>
           /\ LastResult = <<start_url, None>>
    /\ [i \in DOMAIN results |-> results[i][1]]
           \o (IF Crawling THEN <<start_url>> ELSE <<>>)
         = UrlsOf(SubSeq(csv, 1, row))
    /\ \A i \in DOMAIN results :
           normalize_url(results[i][1]) = InvalidURL => results[i][2] = None
    /\ pc = "written" =>
           /\ [i \in DOMAIN output |-> output[i][1]] = UrlsOf(csv)
           /\ \A i \in DOMAIN output :
                  normalize_url(output[i][1]) = InvalidURL => output[i][2] = <<>>

\* the first row held a URL without a host; the run went on to crawl the
\* second row, found its number, and wrote both rows
C7_Witness ==
    /\ pc = "written"
    /\ Len(output) = 2
    /\ normalize_url(output[1][1]) = InvalidURL
    /\ output[1][2] = <<>>
    /\ output[2][2] # <<>>
    /\ log # <<>>

\* no term of the list is left once blanks are stripped
AllBlank(terms) == \A i \in DOMAIN terms : Strip(terms[i]) = <<>>

\* C8: loading the keyword bank fails exactly when the file holds no
\* primary term but blank ones, and the failure ends the run at once: no
\* row is read, no URL normalized, nothing fetched, no result recorded or
\* written, and no step follows.
C8_InvalidConfigAborts ==
    /\ pc # "load" => (pc = "aborted" <=> AllBlank(keyword_file.primary_terms))
    /\ pc \notin {"load", "aborted"} => keywords.primary_terms # {}
    /\ pc = "aborted" =>
           /\ row = 0 /\ results = <<>> /\ output = <<>>
           /\ start_url = <<>> /\ queue = <<>> /\ visited = {} /\ log = <<>>
           /\ outcome = "none"
           /\ ~ENABLED Next

\* the file listed primary terms, all blank, and the run ended before the
\* first of its rows, a well-formed URL, was read
C8_Witness ==
    /\ pc = "aborted"
    /\ keyword_file.primary_terms # <<>>
    /\ csv # <<>>
    /\ normalize_url(csv[1]) # InvalidURL
    /\ row = 0

(***************************************************************************)
(* Properties of the same-domain test.                                     *)
(***************************************************************************)
\* the same-domain test has returned its verdict
Judged == pc = "returned" /\ unit_ret # <<>>

\* C9 as stated: the same-domain test looks at hosts only: the verdict is
\* that the link and the start URL have the same host, whatever their
\* schemes, ports and paths.  The code does not behave so: a port differs.
C9_HostOnly ==
    Judged => (unit_ret[1] <=> unit_arg.url.host = unit_arg.start.host)

\* C9 as the code has it: the same-domain test compares network locations, host and port
\* together: the verdict is that the link and the start URL have the same
\* host and the same port; URLs that differ only in scheme or path get the
\* same verdict, and a URL on another host (a www. variant included) or
\* another port is of a different domain.
C9_NetlocOnly ==
    Judged =>
        /\ unit_ret[1] <=> /\ unit_arg.url.host = unit_arg.start.host
                           /\ unit_arg.url.port = unit_arg.start.port
        /\ \A other \in UrlParts :
               (other.host = unit_arg.url.host /\ other.port = unit_arg.url.port)
                   => same_domain(MkUrl(other), TargetDomain(MkUrl(unit_arg.start)))
                          = unit_ret[1]

\* a link that shares host and port with the start URL and differs from it
\* in scheme and path was judged to be of the same domain
C9_Witness ==
    /\ Judged
    /\ unit_ret[1]
    /\ unit_arg.url.port = <<":", "8080">>
    /\ unit_arg.url.scheme # unit_arg.start.scheme
    /\ unit_arg.url.path # unit_arg.start.path

(***************************************************************************)
(* Properties of phone normalisation.                                      *)
(***************************************************************************)
\* C10: for a domestic digit string d of 10 digits or more that starts
\* with 0, normalize_phone_digits accepts d and its +81 form, whatever the
\* separators and with or without the +, and gives both the digits key d.
C10_SharedKey ==
    (pc = "normalized" /\ Len(unit_arg.d) >= 10) =>
        /\ unit_ret[1] # None
        /\ unit_ret[2] # None
        /\ unit_ret[1][1] = unit_ret[2][1]
        /\ unit_ret[2][1] = unit_arg.d

\* a number written +81-d-dddd-dddd got the key of its ten-digit domestic
\* spelling and kept its own display text
C10_Witness ==
    /\ pc = "normalized"
    /\ Len(unit_arg.d) = 10
    /\ unit_arg.plus
    /\ unit_arg.sep = <<"-">>
    /\ unit_ret[2] = <<unit_arg.d, Intl(unit_arg.d, TRUE, <<"-">>)>>
    /\ unit_ret[1] = <<unit_arg.d, unit_arg.d>>

\* C11: for a digit string d of 10 digits or more that starts with 0,
\* normalize_phone_digits accepts d with the digits d, and applied to those
\* digits it gives them back; the same holds of the digits it gives for
\* the +81 form of d.
C11_Idempotent ==
    (pc = "renormalized" /\ Len(unit_arg.d) >= 10) =>
        /\ unit_ret[1] # None
        /\ unit_ret[1][1] = unit_arg.d
        /\ unit_ret[3] # None
        /\ unit_ret[3][1] = unit_ret[1][1]
        /\ unit_ret[4] # None
        /\ unit_ret[4][1] = unit_ret[2][1]

\* a number of eleven digits was normalised twice and kept its digits
C11_Witness ==
    /\ pc = "renormalized"
    /\ Len(unit_arg.d) = 11
    /\ unit_ret[1] = <<unit_arg.d, unit_arg.d>>
    /\ unit_ret[3] = unit_ret[1]

\* the digits of a text, a leading 81 replaced by 0 when more than ten
Rewritten(tel) ==
    LET found == SelectSeq(tel, LAMBDA c : c \in Digit)
    IN  IF Len(found) > 10 /\ SubSeq(found, 1, 2) = <<"8", "1">>
        THEN <<"0">> \o SubSeq(found, 3, Len(found))
        ELSE found

\* ten digits or more, the first of them 0
WellFormedKey(digits) == Len(digits) >= 10 /\ digits[1] = "0"

\* C12: normalize_phone_digits returns None for a registered text exactly
\* when its digits, after the 81 rewrite, are fewer than ten or do not
\* start with 0; and every key of the registry, of its order list, of
\* all_numbers and of hq_numbers has ten digits or more and starts with 0.
C12_NoneIffMalformed ==
    /\ \A k \in DOMAIN register_log :
           normalize_phone_digits(register_log[k][1]) = None
               <=> ~WellFormedKey(Rewritten(register_log[k][1]))
    /\ \A digits \in DOMAIN page_registry.registry \cup Range(page_registry.order)
                       \cup Keys(all_numbers) \cup Keys(hq_numbers) :
           WellFormedKey(digits)

\* a postal code and a number without trunk prefix were turned away, an
\* HQ number was kept, and the crawl collected it
C12_Witness ==
    /\ pc = "collected"
    /\ Len(register_log) = 3
    /\ register_log[1][1] = TelShort
    /\ register_log[2][1] = TelNoTrunk
    /\ register_log[3] = <<TelB, TRUE>>
    /\ Len(page_registry.order) = 1
    /\ Keys(hq_numbers) = {page_registry.order[1]}

(***************************************************************************)
(* Termination and pacing.                                                 *)
(***************************************************************************)
\* C13: every call of crawl_for_hq_phone returns; a result is recorded one
\* at a time, at the return and nowhere else, for the URL the call was
\* made with, and the return is the early exit (with an HQ number), the
\* fallback after the loop, or the rejection of the start URL.
C13_Terminates ==
    /\ [][results' # results =>
            /\ Len(results') = Len(results) + 1
            /\ SubSeq(results', 1, Len(results)) = results
            /\ results'[Len(results')][1] = start_url'
            /\ pc' = "read"
            /\ \/ outcome' = "early" /\ pc = "fetch" /\ hq_numbers' # <<>>
               \/ outcome' = "exhausted" /\ pc = "loop" /\ ~LoopCondition
               \/ outcome' = "invalid" /\ pc = "read"
                     /\ normalize_url(start_url') = InvalidURL]_vars
    /\ [][(Crawling /\ ~Crawling') => results' # results]_vars
    /\ Crawling ~> Returned

\* a crawl over pages that link to each other, one of them without
\* content, has come to its end
C13_Witness ==
    /\ Returned
    /\ outcome = "exhausted"
    /\ \E i \in DOMAIN log : log[i] = SkipMark
    /\ \E i \in DOMAIN log : log[i] = NoContentMark

(***************************************************************************)
(* Properties of the frontier, on a site whose link graph is known         *)
(* (unit_arg gives the anchors of each page).                              *)
(***************************************************************************)
IsMark(e) == e \in {SleepMark, SkipMark, NoContentMark}

\* the fetch logged at position k gave a page
GaveContent(k) ==
    ~IsMark(log[k]) /\ ~(k < Len(log) /\ log[k + 1] = NoContentMark)

\* the URLs fetched up to position k of the log
FetchedUpTo(k) == {log[i] : i \in {j \in 1..k : ~IsMark(log[j])}}

\* every URL put on the queue so far, in the order it was put there: the
\* start URL, then for each page that gave content, in fetch order, those
\* of its links that were on the target domain and not yet visited
Enqueued ==
    LET upTo[k \in 0..Len(log)] ==
            IF k = 0 THEN <<normalize_url(start_url)>>
            ELSE IF GaveContent(k)
            THEN upTo[k - 1] \o
                 SelectSeq(extract_links(unit_arg[log[k]]),
                           LAMBDA link : /\ UrlParse(link).netloc = target_domain
                                         /\ link \notin FetchedUpTo(k))
            ELSE upTo[k - 1]
    IN  upTo[Len(log)]

\* a sequence without the later occurrences of its elements
FirstOccurrences(seq) ==
    LET upTo[k \in 0..Len(seq)] ==
            IF k = 0 THEN <<>>
            ELSE IF \E i \in 1..(k - 1) : seq[i] = seq[k] THEN upTo[k - 1]
            ELSE Append(upTo[k - 1], seq[k])
    IN  upTo[Len(seq)]

\* the number of URLs taken off the queue so far
Dequeued ==
    Len(Fetched) + InFlight + Cardinality({i \in DOMAIN log : log[i] = SkipMark})

\* links go to the back of the queue in the order found, URLs leave it at
\* the front, and the pages fetched are, in order, the URLs that left it,
\* each at its first turn
FifoOrder ==
    start_url # <<>> =>
        /\ Dequeued <= Len(Enqueued)
        /\ queue = SubSeq(Enqueued, Dequeued + 1, Len(Enqueued))
        /\ Fetched \o (IF InFlight = 1 THEN <<current>> ELSE <<>>)
               = FirstOccurrences(SubSeq(Enqueued, 1, Dequeued))

\* the pages within n links of the start URL, over the links of from
LinkedWithin(from, n) ==
    LET within[k \in 0..n] ==
            IF k = 0 THEN {normalize_url(start_url)}
            ELSE within[k - 1] \cup
                 {link \in UNION {Range(extract_links(unit_arg[u])) :
                                      u \in within[k - 1] \cap from} :
                      UrlParse(link).netloc = target_domain}
    IN  within[n]

\* the link distance of page u from the start URL, over the links of from
Distance(from, u) ==
    CHOOSE n \in 0..Cardinality(SitePages) :
        /\ u \in LinkedWithin(from, n)
        /\ n > 0 => u \notin LinkedWithin(from, n - 1)

\* the pages fetched so far that gave content
ContentPages == {log[k] : k \in {i \in DOMAIN log : GaveContent(i)}}

\* C17 as stated: the frontier is first-in first-out, hence no page is
\* fetched before a page that is fewer links away from the start URL on
\* the site.  The code does not behave so when a fetch gives no content.
C17_BreadthFirst ==
    /\ FifoOrder
    /\ \A i, j \in DOMAIN Fetched :
           i < j => Distance(SitePages, Fetched[i]) <= Distance(SitePages, Fetched[j])

\* C17 as the code has it: the frontier is first-in first-out, hence no
\* page is fetched before a page that is fewer links away from the start
\* URL, the links counted being those of the pages that gave content.
C17_BreadthFirstOverContent ==
    /\ FifoOrder
    /\ \A i, j \in DOMAIN Fetched :
           i < j => Distance(ContentPages, Fetched[i])
                        <= Distance(ContentPages, Fetched[j])

\* all six pages of the site were fetched, page a without content, so that
\* page y, two links from the home page through a but three through the
\* pages that gave content, came after page z, three links away
C17_Witness ==
    /\ unit_arg = SiteShortcut
    /\ Len(Fetched) = 6
    /\ SitePage("a") \notin ContentPages
    /\ Fetched[5] = SitePage("z")
    /\ Fetched[6] = SitePage("y")
    /\ Distance(SitePages, SitePage("y")) = 2
    /\ Distance(ContentPages, SitePage("y")) = 3

\* C14: when a non-zero delay is configured, the crawl sleeps after every
\* fetch that does not end it, a fetch without content included: the next
\* entry of the log after a fetch (and its no-content mark) is a sleep, so
\* no two fetches of one crawl follow each other without a sleep between.
\* The code goes back to the loop head without sleeping when the fetch
\* gave no content.
C14_DelayAfterEveryPage ==
    delay # 0 =>
        /\ \A k \in DOMAIN log :
               (log[k] = NoContentMark /\ k < Len(log)) => log[k + 1] = SleepMark
        /\ \A i, j \in DOMAIN log :
               (i < j /\ ~IsMark(log[i]) /\ ~IsMark(log[j]))
                   => \E k \in (i + 1)..(j - 1) : log[k] = SleepMark

\* the digits keys of the register calls made, in the order of each key's
\* first successful registration
KeysInOrder ==
    FirstOccurrences(SelectSeq([k \in DOMAIN register_log |-> CallKey(k)],
                               LAMBDA key : key # None))

\* the register calls made for a digits key, and those of them that were HQ
CallsFor(digits) == {k \in DOMAIN register_log : CallKey(k) = digits}
HQCallsFor(digits) == {k \in CallsFor(digits) : register_log[k][2]}

\* C15: extract_phone_candidates returns exactly one (display, isHQ) pair
\* per distinct digits key, in the order of each key's first successful
\* registration; a key never registered as HQ has the display of its first
\* registration, an HQ key the display of its last HQ registration; a
\* match whose normalization fails adds nothing.
C15_DisplayAndOrder ==
    pc = "collected" =>
        /\ Len(unit_ret) = Len(KeysInOrder)
        /\ \A n \in DOMAIN unit_ret :
               LET digits == KeysInOrder[n]
                   first == CHOOSE k \in CallsFor(digits) :
                                \A other \in CallsFor(digits) : k <= other
                   lastHQ == CHOOSE k \in HQCallsFor(digits) :
                                 \A other \in HQCallsFor(digits) : k >= other
               IN  unit_ret[n] =
                       IF HQCallsFor(digits) = {}
                       THEN <<Strip(register_log[first][1]), FALSE>>
                       ELSE <<Strip(register_log[lastHQ][1]), TRUE>>

\* one number was registered as HQ under two spellings and then once more,
\* not as HQ, under the first: the pair returned shows the second spelling
C15_Witness ==
    /\ pc = "collected"
    /\ register_log = << <<TelA, TRUE>>, <<TelA81, TRUE>>, <<TelA, FALSE>> >>
    /\ unit_ret = << <<TelA81, TRUE>> >>

\* dict d2 holds the entries of d1, unchanged and in their places, and
\* possibly more after them
Extends(d1, d2) ==
    /\ Len(d1) <= Len(d2)
    /\ \A i \in DOMAIN d1 : d2[i] = d1[i]

\* C16: all_numbers and hq_numbers only grow while a page's candidates are
\* collected: no key is removed and the display of a key present does not
\* change, whatever spelling the page has for it; each key is held once.
C16_Monotone ==
    /\ [][Extends(all_numbers, all_numbers') /\ Extends(hq_numbers, hq_numbers')]_vars
    /\ [](/\ Cardinality(Keys(all_numbers)) = Len(all_numbers)
          /\ Cardinality(Keys(hq_numbers)) = Len(hq_numbers))

\* an earlier page had left TelA81 in all_numbers; this page gave the same
\* number spelt TelA, as HQ, and a second number: all_numbers still shows
\* TelA81 and has grown, hq_numbers shows TelA
C16_Witness ==
    /\ pc = "collected"
    /\ \E k \in DOMAIN register_log : register_log[k] = <<TelA, TRUE>>
    /\ Len(all_numbers) = 2
    /\ all_numbers[1] = normalize_phone_digits(TelA81)
    /\ hq_numbers = << normalize_phone_digits(TelA) >>

\* the URLs fetched or about to be fetched in the crawl
Attempted == Fetched \o (IF InFlight = 1 THEN <<current>> ELSE <<>>)

\* C18: no URL is fetched twice in one crawl, and a URL that comes off the
\* queue when it is in the visited set already is dropped: the step that
\* takes it fetches nothing and leaves the crawl at the loop head.
C18_NoRefetch ==
    /\ [](Cardinality(Range(Attempted)) = Len(Attempted))
    /\ [][(pc = "loop" /\ queue # <<>> /\ queue' = Tail(queue)
              /\ Head(queue) \in visited)
             => (Attempted' = Attempted /\ pc' = "loop" /\ visited' = visited)]_vars

\* a URL was dropped at the loop head, and the queue now holds a URL that
\* was visited already and, twice, a URL that was not
C18_Witness ==
    /\ pc = "loop"
    /\ \E k \in DOMAIN log : log[k] = SkipMark
    /\ \E i \in DOMAIN queue : queue[i] \in visited
    /\ \E i, j \in DOMAIN queue :
           i < j /\ queue[i] = queue[j] /\ queue[i] \notin visited

\* the candidates of page body b that extract_phone_candidates flags as HQ,
\* in the order it returns them
HQCandidates(b) == SelectSeq(Candidates(keywords, b), LAMBDA c : c[2])

\* C19: hq_numbers is empty whenever the loop of crawl_for_hq_phone is at
\* its head or inside an iteration that has not returned; so the page that
\* ends the crawl early is the one fetched last, and the answer is the
\* display of the first of that page's candidates flagged as HQ; a page
\* after which the crawl goes on had no HQ candidate, and the fallback is
\* evaluated with hq_numbers empty.
C19_HQEmptyAtLoopHead ==
    /\ [](pc \in {"loop", "fetch", "sleep"} => hq_numbers = <<>>)
    /\ [](outcome = "exhausted" => hq_numbers = <<>>)
    /\ [][(pc = "fetch" /\ outcome' = "early") =>
             /\ hq_numbers = <<>>
             /\ Fetched' = Append(Fetched, current)
             /\ \E b \in DOMAIN Bodies :
                    /\ HQCandidates(b) # <<>>
                    /\ hq_numbers' = Collect([all |-> <<>>, hq |-> <<>>],
                                             HQCandidates(b)).hq
                    /\ results' = Append(results,
                           <<start_url,
                             normalize_phone_digits(HQCandidates(b)[1][1])[2]>>)]_vars
    /\ [][(pc = "fetch" /\ outcome' # "early" /\ Fetched' # Fetched
              /\ log'[Len(log')] # NoContentMark) =>
             \E b \in DOMAIN Bodies :
                 /\ HQCandidates(b) = <<>>
                 /\ all_numbers' = Collect([all |-> all_numbers, hq |-> <<>>],
                                           Candidates(keywords, b)).all]_vars

\* the first page fetched gave two numbers, the second of them as HQ: the
\* crawl returned the second
C19_Witness ==
    /\ outcome = "early"
    /\ Len(Fetched) = 1
    /\ Len(all_numbers) = 2
    /\ Len(hq_numbers) = 1
    /\ hq_numbers[1] = all_numbers[2]
    /\ LastResult = <<start_url, all_numbers[2][2]>>

\* C20: for every pair extract_phone_candidates returns,
\* normalize_phone_digits of the display succeeds and gives the digits key
\* the pair was registered under; so after the loop over the pairs every
\* key of the page is in all_numbers, every key flagged HQ is in
\* hq_numbers, and the keys of hq_numbers are keys of all_numbers.
C20_RenormalizeKeepsKey ==
    pc = "collected" =>
        /\ Len(unit_ret) = Len(page_registry.order)
        /\ \A n \in DOMAIN unit_ret :
               LET again == normalize_phone_digits(unit_ret[n][1])
               IN  /\ again # None
                   /\ again[1] = page_registry.order[n]
                   /\ again[1] \in Keys(all_numbers)
                   /\ unit_ret[n][2] => again[1] \in Keys(hq_numbers)
        /\ Keys(hq_numbers) \subseteq Keys(all_numbers)

\* the page gave a number written with its country code, as HQ, a match
\* that is no phone number, and a second number: two pairs were returned,
\* and the key of the first is not the digits of its display
C20_Witness ==
    /\ pc = "collected"
    /\ register_log = << <<TelA81, TRUE>>, <<TelShort, TRUE>>, <<TelB, FALSE>> >>
    /\ unit_ret = << <<TelA81, TRUE>>, <<TelB, FALSE>> >>
    /\ page_registry.order[1] # SelectSeq(TelA81, IsDigit)
    /\ Keys(hq_numbers) = {page_registry.order[1]}
    /\ page_registry.order[2] \in Keys(all_numbers)

====
